---- MODULE Spec2Model ----
(***************************************************************************)
(* EthoScraper: the EthicalSpider of src/ethoscraper/core/scraper.py.      *)
(*                                                                         *)
(* One crawl job: the fetch engine delivers documents to parse_item, which *)
(* checks the page and depth quotas, assembles a record from the per-field *)
(* configuration (extract_configured_data), filters it                     *)
(* (_should_include_item), protects it (apply_data_protection) and appends *)
(* it to scraped_data; closed() serializes the collection (save_results).  *)
(*                                                                         *)
(* Spec is the crawl job, from run_ethical_scraper's LIA gate to closed();  *)
(* CallSpec calls single methods (the validator, the filter, the privacy   *)
(* engine, parse_item, the constructor, the CSV header) on their own       *)
(* arguments.                                                              *)
(*                                                                         *)
(* Text is modelled as a sequence of one-character strings, a Python value *)
(* as a tagged record, a dict as a sequence of <<key, value>> pairs in     *)
(* insertion order.                                                        *)
(***************************************************************************)
EXTENDS Integers, Sequences, FiniteSets, TLC

(***************************************************************************)
(* Text                                                                    *)
(***************************************************************************)
UpperLetters == <<"A","B","C","D","E","F","G","H","I","J","K","L","M",
                  "N","O","P","Q","R","S","T","U","V","W","X","Y","Z">>
LowerLetters == <<"a","b","c","d","e","f","g","h","i","j","k","l","m",
                  "n","o","p","q","r","s","t","u","v","w","x","y","z">>
Digits == <<"0","1","2","3","4","5","6","7","8","9">>

\* str.lower() on one character
LowerChar(c) ==
    IF \E i \in 1..26 : UpperLetters[i] = c
    THEN LowerLetters[CHOOSE i \in 1..26 : UpperLetters[i] = c]
    ELSE c

\* str.upper() on one character
UpperChar(c) ==
    IF \E i \in 1..26 : LowerLetters[i] = c
    THEN UpperLetters[CHOOSE i \in 1..26 : LowerLetters[i] = c]
    ELSE c

Lower(s) == [i \in 1..Len(s) |-> LowerChar(s[i])]
Upper(s) == [i \in 1..Len(s) |-> UpperChar(s[i])]

IsSpace(c) == c \in {" ", "\t", "\n", "\r"}

RECURSIVE LStrip(_)
LStrip(s) == IF s # <<>> /\ IsSpace(Head(s)) THEN LStrip(Tail(s)) ELSE s

RECURSIVE RStrip(_)
RStrip(s) ==
    IF s # <<>> /\ IsSpace(s[Len(s)]) THEN RStrip(SubSeq(s, 1, Len(s) - 1)) ELSE s

\* str.strip()
Strip(s) == RStrip(LStrip(s))

\* s.startswith(p)
StartsWith(s, p) == Len(p) <= Len(s) /\ SubSeq(s, 1, Len(p)) = p

\* s.endswith(p)
EndsWith(s, p) == Len(p) <= Len(s) /\ SubSeq(s, Len(s) - Len(p) + 1, Len(s)) = p

\* needle in s
Contains(s, needle) ==
    \E i \in 0..(Len(s) - Len(needle)) : SubSeq(s, i + 1, i + Len(needle)) = needle

\* s[:n] for any integer n (a negative n counts from the end)
SliceTo(s, n) ==
    IF n >= 0
    THEN SubSeq(s, 1, IF n < Len(s) THEN n ELSE Len(s))
    ELSE SubSeq(s, 1, IF Len(s) + n > 0 THEN Len(s) + n ELSE 0)

\* s[n:] for n >= 0
SliceFrom(s, n) == SubSeq(s, (IF n < Len(s) THEN n ELSE Len(s)) + 1, Len(s))

RECURSIVE JoinWith(_, _)
\* sep.join(parts)
JoinWith(sep, parts) ==
    IF parts = <<>> THEN <<>>
    ELSE IF Len(parts) = 1 THEN parts[1]
    ELSE parts[1] \o sep \o JoinWith(sep, Tail(parts))

\* The literals of the source
S_ERROR == <<"[","E","R","R","O","R","]">>
S_REDACTED == <<"[","R","E","D","A","C","T","E","D","]">>
S_SHA256 == <<"S","H","A","2","5","6">>
S_Stub == <<"S","t","u","b">>
S_response_url == <<"r","e","s","p","o","n","s","e",".","u","r","l">>

(***************************************************************************)
(* Python values                                                           *)
(***************************************************************************)
NoneV == [t |-> "none"]
StrV(s) == [t |-> "str", s |-> s]
ListV(l) == [t |-> "list", l |-> l]
BoolV(b) == [t |-> "bool", b |-> b]
NumV(n) == [t |-> "num", n |-> n]
\* datetime.now().isoformat(), days later: an opaque non-empty text
TimeV(days) == [t |-> "time", plus |-> days]
\* The first len characters of hashlib.sha256(of).hexdigest(): the digits
\* are not modelled, the digest is named by its preimage.
HexV(of, len) == [t |-> "hex", of |-> of, len |-> len]

\* bool(v)
Truthy(v) ==
    CASE v.t = "none" -> FALSE
      [] v.t = "str"  -> v.s # <<>>
      [] v.t = "list" -> v.l # <<>>
      [] v.t = "bool" -> v.b
      [] v.t = "num"  -> v.n # 0
      [] v.t = "time" -> TRUE
      [] v.t = "hex"  -> v.len > 0

RECURSIVE ReprItems(_)
ReprItems(l) ==
    IF l = <<>> THEN <<>>
    ELSE <<"'">> \o l[1] \o <<"'">>
         \o (IF Len(l) > 1 THEN <<",", " ">> ELSE <<>>) \o ReprItems(Tail(l))

\* str(v) for the values whose text is modelled (the text of a number, a
\* timestamp or a digest is not)
StrOf(v) ==
    CASE v.t = "str"  -> v.s
      [] v.t = "list" -> <<"[">> \o ReprItems(v.l) \o <<"]">>
      [] v.t = "none" -> <<"N","o","n","e">>
      [] v.t = "bool" -> IF v.b THEN <<"T","r","u","e">> ELSE <<"F","a","l","s","e">>
      [] OTHER        -> <<>>

(***************************************************************************)
(* dict, in insertion order                                                *)
(***************************************************************************)
EmptyDict == <<>>
Has(d, k) == \E i \in 1..Len(d) : d[i][1] = k
Get(d, k) == d[CHOOSE i \in 1..Len(d) : d[i][1] = k][2]
\* d[k] = v
Put(d, k, v) ==
    IF Has(d, k)
    THEN [i \in 1..Len(d) |-> IF d[i][1] = k THEN <<k, v>> ELSE d[i]]
    ELSE Append(d, <<k, v>>)
\* d.pop(k, None)
Pop(d, k) == SelectSeq(d, LAMBDA p : p[1] # k)
Keys(d) == [i \in 1..Len(d) |-> d[i][1]]

(***************************************************************************)
(* Transformation pipeline (_apply_nested_transformations)                 *)
(* A transformation is one {type: config} entry, [op |-> type, arg |->     *)
(* config]; arg is a BOOLEAN flag, a number or a text according to type.   *)
(***************************************************************************)
Op(op, arg) == [op |-> op, arg |-> arg]

\* [v.strip() for v in values if v]
StripAll(values) ==
    LET kept == SelectSeq(values, LAMBDA v : v # <<>>)
    IN  [i \in 1..Len(kept) |-> Strip(kept[i])]

RemovePrefix(v, s) == IF StartsWith(v, s) THEN SliceFrom(v, Len(s)) ELSE v

\* v[:-len(s)] if v.endswith(s) else v
RemoveSuffix(v, s) == IF EndsWith(v, s) THEN SliceTo(v, 0 - Len(s)) ELSE v

\* re.sub(r'[^\d+]', '', phone)
Cleaned(phone) ==
    SelectSeq(phone, LAMBDA c : c = "+" \/ \E i \in 1..10 : Digits[i] = c)

\* The normaliser without its first branch
_normalize_phone_NoPlusBranch(phone) ==
    LET cleaned == Cleaned(phone)
    IN  IF Len(cleaned) = 10 THEN <<"+", "1">> \o cleaned
        ELSE IF Len(cleaned) = 11 /\ StartsWith(cleaned, <<"1">>) THEN <<"+">> \o cleaned
        ELSE phone

_normalize_phone(phone) ==
    LET cleaned == Cleaned(phone)
    IN  IF StartsWith(cleaned, <<"+">>) THEN cleaned
        ELSE IF Len(cleaned) = 10 THEN <<"+", "1">> \o cleaned
        ELSE IF Len(cleaned) = 11 /\ StartsWith(cleaned, <<"1">>) THEN <<"+">> \o cleaned
        ELSE phone

\* One branch of the if/elif chain; a type that matches no branch (or a
\* flag type whose config is false) leaves the values as they are.
ApplyOp(values, tr) ==
    CASE tr.op = "strip" /\ tr.arg = TRUE -> StripAll(values)
      [] tr.op = "lowercase" /\ tr.arg = TRUE ->
            [i \in 1..Len(values) |-> Lower(values[i])]
      [] tr.op = "uppercase" /\ tr.arg = TRUE ->
            [i \in 1..Len(values) |-> Upper(values[i])]
      [] tr.op = "limit" -> SliceTo(values, tr.arg)
      [] tr.op = "join" -> <<JoinWith(tr.arg, values)>>
      [] tr.op = "truncate" ->
            [i \in 1..Len(values) |-> SliceTo(values[i], tr.arg)]
      [] tr.op = "remove_prefix" ->
            [i \in 1..Len(values) |-> RemovePrefix(values[i], tr.arg)]
      [] tr.op = "remove_suffix" ->
            [i \in 1..Len(values) |-> RemoveSuffix(values[i], tr.arg)]
      [] tr.op = "normalize_phone" /\ tr.arg = TRUE ->
            [i \in 1..Len(values) |-> _normalize_phone(values[i])]
      [] OTHER -> values

RECURSIVE ApplyOps(_, _)
ApplyOps(values, trs) ==
    IF trs = <<>> THEN values ELSE ApplyOps(ApplyOp(values, Head(trs)), Tail(trs))

\* The pipeline without its empty-input return
_apply_nested_transformations_NoGuard(values, transformations) ==
    ApplyOps(values, transformations)

_apply_nested_transformations(values, transformations) ==
    IF values = <<>> THEN values ELSE ApplyOps(values, transformations)

(***************************************************************************)
(* Documents and field extraction                                          *)
(* A document answers a field's CSS query with a list of texts, or raises. *)
(***************************************************************************)
CssOk(values) == [raise |-> FALSE, values |-> values]
CssRaise == [raise |-> TRUE, values |-> <<>>]

\* _extract_nested_field, for a query that does not raise
_extract_nested_field(response, fc) ==
    IF fc.selector = S_response_url
    THEN StrV(response.url)
    ELSE LET values == _apply_nested_transformations(
                           response.css[fc.name].values, fc.transformations)
         IN  IF Len(values) = 1 THEN StrV(values[1])
             ELSE IF Len(values) = 0 THEN NoneV
             ELSE ListV(values)

\* whether the field's extraction raises
ExtractionRaises(response, fc) ==
    fc.selector # S_response_url /\ response.css[fc.name].raise

(***************************************************************************)
(* Field validator (_validate_field_value)                                 *)
(* A pattern is a sequence of character classes matched from the start of  *)
(* the text (re.match), with an optional closing $.                        *)
(***************************************************************************)
ReMatch(pattern, s) ==
    LET n == Len(pattern.classes)
    IN  /\ Len(s) >= n
        /\ \A i \in 1..n : s[i] \in pattern.classes[i]
        /\ pattern.dollar =>
              \/ Len(s) = n
              \/ Len(s) = n + 1 /\ s[n + 1] = "\n"

\* The validator without its early return for a null or empty value
_validate_field_value_NoEmptyPass(value, validation) ==
    LET value_str == StrOf(value)
    IN  /\ "pattern" \in validation.has => ReMatch(validation.pattern, value_str)
        /\ "min_length" \in validation.has => Len(value_str) >= validation.min_length
        /\ "max_length" \in validation.has => Len(value_str) <= validation.max_length

_validate_field_value(value, validation) ==
    IF ~Truthy(value) THEN TRUE
    ELSE LET value_str == StrOf(value)
         IN  /\ "pattern" \in validation.has => ReMatch(validation.pattern, value_str)
             /\ "min_length" \in validation.has => Len(value_str) >= validation.min_length
             /\ "max_length" \in validation.has => Len(value_str) <= validation.max_length

(***************************************************************************)
(* Record assembly (extract_configured_data)                               *)
(***************************************************************************)
\* field_config.get('default_value')
DefaultOf(fc) == IF "default_value" \in fc.has THEN fc.default_value ELSE NoneV

\* The error path ignoring the configured default
ErrorValueOf_NoDefault(fc) == StrV(S_ERROR)

\* field_config.get('default_value', '[ERROR]')
ErrorValueOf(fc) == IF "default_value" \in fc.has THEN fc.default_value ELSE StrV(S_ERROR)

\* The loop body storing the error marker when validation fails
ExtractField_MarksInvalid(item, response, fc) ==
    IF ExtractionRaises(response, fc)
    THEN Put(item, fc.name, ErrorValueOf(fc))
    ELSE LET extracted == _extract_nested_field(response, fc)
             value == IF extracted = NoneV THEN DefaultOf(fc) ELSE extracted
         IN  IF /\ Truthy(value)
                /\ "validation" \in fc.has
                /\ ~_validate_field_value(value, fc.validation)
             THEN Put(item, fc.name, StrV(S_ERROR))
             ELSE Put(item, fc.name, value)

\* The loop body storing the value without validating it
ExtractField_NoValidation(item, response, fc) ==
    IF ExtractionRaises(response, fc)
    THEN Put(item, fc.name, ErrorValueOf(fc))
    ELSE LET extracted == _extract_nested_field(response, fc)
         IN  Put(item, fc.name, IF extracted = NoneV THEN DefaultOf(fc) ELSE extracted)

\* One iteration of the loop over extract_fields
ExtractField(item, response, fc) ==
    IF ExtractionRaises(response, fc)
    THEN Put(item, fc.name, ErrorValueOf(fc))
    ELSE LET extracted == _extract_nested_field(response, fc)
             value == IF extracted = NoneV THEN DefaultOf(fc) ELSE extracted
         IN  IF /\ Truthy(value)
                /\ "validation" \in fc.has
                /\ ~_validate_field_value(value, fc.validation)
             THEN item
             ELSE Put(item, fc.name, value)

RECURSIVE ExtractFields(_, _, _)
ExtractFields(item, response, fields) ==
    IF fields = <<>> THEN item
    ELSE ExtractFields(ExtractField(item, response, Head(fields)), response, Tail(fields))

MetadataKeys == <<"scraped_at", "source_url", "response_time", "contact_by", "user_contacted">>

AddMetadata(item, response) ==
    LET i1 == Put(item, "scraped_at", TimeV(0))
        i2 == Put(i1, "source_url", StrV(response.url))
        i3 == Put(i2, "response_time", NumV(response.latency))
        i4 == Put(i3, "contact_by", TimeV(30))
    IN  Put(i4, "user_contacted", BoolV(FALSE))

extract_configured_data(config, response) ==
    AddMetadata(ExtractFields(EmptyDict, response, config.extract_fields), response)

(***************************************************************************)
(* Item filter (_should_include_item)                                      *)
(***************************************************************************)
\* The rule compared without .lower()
RuleExcludes_CaseSensitive(rule, item) ==
    /\ Has(item, rule.field)
    /\ Truthy(Get(item, rule.field))
    /\ rule.contains # <<>>
    /\ Contains(StrOf(Get(item, rule.field)), rule.contains)

RuleExcludes(rule, item) ==
    /\ Has(item, rule.field)
    /\ Truthy(Get(item, rule.field))
    /\ rule.contains # <<>>
    /\ Contains(Lower(StrOf(Get(item, rule.field))), Lower(rule.contains))

_should_include_item(config, item) ==
    \A i \in 1..Len(config.exclude_if) : ~RuleExcludes(config.exclude_if[i], item)

(***************************************************************************)
(* Privacy engine (apply_data_protection)                                  *)
(***************************************************************************)
\* Length of hashlib.sha256(...).hexdigest()
SHA256HexLen == 64

RECURSIVE DigitsValue(_, _)
DigitsValue(s, acc) ==
    IF s = <<>> THEN acc
    ELSE DigitsValue(Tail(s), acc * 10 + ((CHOOSE i \in 1..10 : Digits[i] = Head(s)) - 1))

IsDigit(c) == \E i \in 1..10 : Digits[i] = c

\* int(text): surrounding whitespace, an optional sign, decimal digits;
\* anything else is a ValueError ([ok |-> FALSE]).
ParseInt(text) ==
    LET s == Strip(text)
        signed == s # <<>> /\ Head(s) \in {"+", "-"}
        body == IF signed THEN Tail(s) ELSE s
    IN  IF body = <<>> \/ \E i \in 1..Len(body) : ~IsDigit(body[i])
        THEN [ok |-> FALSE, n |-> 0]
        ELSE [ok |-> TRUE,
              n |-> IF signed /\ Head(s) = "-" THEN 0 - DigitsValue(body, 0)
                    ELSE DigitsValue(body, 0)]

RECURSIVE UpToColon(_)
UpToColon(s) == IF s = <<>> \/ Head(s) = ":" THEN <<>> ELSE <<Head(s)>> \o UpToColon(Tail(s))

RECURSIVE AfterColon(_)
AfterColon(s) == IF s = <<>> THEN <<>> ELSE IF Head(s) = ":" THEN Tail(s) ELSE AfterColon(Tail(s))

\* method.split(':')[1], for a method that holds a colon
SplitColonSecond(method) == UpToColon(AfterColon(method))

\* What is hashed: str(value).encode()
HashInput(v) == IF v.t \in {"str", "list", "bool", "none"} THEN StrV(StrOf(v)) ELSE v

\* A slice that could give more characters than the digest has
TruncatedLen_Unbounded(length) == length

\* len(hash_full[:length])
TruncatedLen(length) ==
    IF length >= 0
    THEN (IF length < SHA256HexLen THEN length ELSE SHA256HexLen)
    ELSE (IF SHA256HexLen + length > 0 THEN SHA256HexLen + length ELSE 0)

\* The pseudonymise branch: the new value, or raised (int() of the length)
Pseudonymise(method, v) ==
    IF StartsWith(method, S_SHA256)
    THEN IF \E i \in 1..Len(method) : method[i] = ":"
         THEN LET length == ParseInt(SplitColonSecond(method))
              IN  IF length.ok
                  THEN [raised |-> FALSE, value |-> HexV(HashInput(v), TruncatedLen(length.n))]
                  ELSE [raised |-> TRUE, value |-> v]
         ELSE [raised |-> FALSE, value |-> HexV(HashInput(v), SHA256HexLen)]
    ELSE IF method = S_Stub
         THEN [raised |-> FALSE, value |-> StrV(S_REDACTED)]
         ELSE [raised |-> FALSE, value |-> v]

\* One iteration of the loop over extract_fields
ProtectField(st, fc) ==
    IF st.raised THEN st
    ELSE IF /\ "privacy" \in fc.has
            /\ Has(st.item, fc.name)
            /\ Truthy(Get(st.item, fc.name))
         THEN LET p == IF "pseudonymise" \in fc.privacy.has
                       THEN Pseudonymise(fc.privacy.pseudonymise, Get(st.item, fc.name))
                       ELSE [raised |-> FALSE, value |-> Get(st.item, fc.name)]
                  hashed == Put(st.item, fc.name, p.value)
              IN  IF p.raised THEN [raised |-> TRUE, item |-> st.item]
                  ELSE [raised |-> FALSE,
                        item |-> IF "anonymize" \in fc.privacy.has /\ fc.privacy.anonymize
                                 THEN Pop(hashed, fc.name)
                                 ELSE hashed]
         ELSE st

RECURSIVE ProtectFields(_, _)
ProtectFields(st, fields) ==
    IF fields = <<>> THEN st ELSE ProtectFields(ProtectField(st, Head(fields)), Tail(fields))

\* [raised |-> a ValueError left the function, item |-> the record returned]
apply_data_protection(config, item) ==
    ProtectFields([raised |-> FALSE, item |-> item], config.extract_fields)

(***************************************************************************)
(* Output serializer (save_results)                                        *)
(* io is what the file system does: "ok", "mkdir_error" (creating the      *)
(* output directory fails, outside the try) or "write_error" (the writer   *)
(* fails after the file was opened, inside the try).                       *)
(***************************************************************************)
IoResults == {"ok", "mkdir_error", "write_error"}

NoFile == [state |-> "absent", data |-> <<>>]

\* save_results without its "No data to save" early return
save_results_NoEmptyGuard(data, io) ==
    IF io = "mkdir_error"
    THEN [raised |-> TRUE, writes |-> 0, file |-> NoFile]
    ELSE IF io = "write_error"
    THEN [raised |-> FALSE, writes |-> 1, file |-> [state |-> "partial", data |-> <<>>]]
    ELSE [raised |-> FALSE, writes |-> 1, file |-> [state |-> "complete", data |-> data]]

\* [raised |-> an exception left save_results, writes |-> calls of a
\*  _save_as_* writer, file |-> the output file afterwards]
save_results(data, io) ==
    IF data = <<>>
    THEN [raised |-> FALSE, writes |-> 0, file |-> NoFile]
    ELSE IF io = "mkdir_error"
    THEN [raised |-> TRUE, writes |-> 0, file |-> NoFile]
    ELSE IF io = "write_error"
    THEN [raised |-> FALSE, writes |-> 1, file |-> [state |-> "partial", data |-> <<>>]]
    ELSE [raised |-> FALSE, writes |-> 1, file |-> [state |-> "complete", data |-> data]]

(***************************************************************************)
(* Document processor (parse_item)                                         *)
(* parse_item is a generator: its body runs without interruption up to the *)
(* yield that follows the append, or to its return or raise.               *)
(***************************************************************************)
Outcomes == {"page_limit", "depth_limit", "filtered", "appended", "error"}

\* The page check with > for >=
PageLimitReached_Strict(config, pages) == pages > config.max_pages

PageLimitReached(config, pages) == pages >= config.max_pages

DepthLimitReached(config, response) == response.depth >= config.max_depth

\* The page check placed after the increment: a rejected document is counted
OnPageLimit_Counted(pages, data) ==
    [pages |-> pages + 1, data |-> data, outcome |-> "page_limit", yielded |-> FALSE]

\* raise CloseSpider("Maximum pages reached")
OnPageLimit(pages, data) ==
    [pages |-> pages, data |-> data, outcome |-> "page_limit", yielded |-> FALSE]

\* The depth check placed after the increment: a too-deep document is counted
OnDepthLimit_Counted(pages, data) ==
    [pages |-> pages + 1, data |-> data, outcome |-> "depth_limit", yielded |-> FALSE]

\* return
OnDepthLimit(pages, data) ==
    [pages |-> pages, data |-> data, outcome |-> "depth_limit", yielded |-> FALSE]

\* The increment placed after the yield instead of before the extraction
CounterStep_AfterYield(pages, at) == IF at = "resume" THEN pages + 1 ELSE pages

\* Where the body counts the page: self.pages_scraped += 1 stands right
\* after the two checks ("accept"); nothing follows the yield ("resume").
CounterStep(pages, at) == IF at = "accept" THEN pages + 1 ELSE pages

\* The body with the filter applied to the protected record
OnAccepted_FilterAfterPrivacy(config, pages, data, response) ==
    LET counted == CounterStep(pages, "accept")
        item == extract_configured_data(config, response)
        protected == apply_data_protection(config, item)
    IN  IF protected.raised
        THEN [pages |-> counted, data |-> data, outcome |-> "error", yielded |-> FALSE]
        ELSE IF _should_include_item(config, protected.item)
        THEN [pages |-> counted, data |-> Append(data, protected.item),
              outcome |-> "appended", yielded |-> TRUE]
        ELSE [pages |-> counted, data |-> data, outcome |-> "filtered", yielded |-> FALSE]

\* The body dropping a record whose required field is missing
OnAccepted_RequiredBlocks(config, pages, data, response) ==
    LET counted == CounterStep(pages, "accept")
        item == extract_configured_data(config, response)
        missing == \E i \in 1..Len(config.extract_fields) :
                      LET fc == config.extract_fields[i]
                      IN  /\ "required" \in fc.has /\ fc.required
                          /\ Has(item, fc.name) /\ ~Truthy(Get(item, fc.name))
    IN  IF ~missing /\ _should_include_item(config, item)
        THEN LET protected == apply_data_protection(config, item)
             IN  IF protected.raised
                 THEN [pages |-> counted, data |-> data,
                       outcome |-> "error", yielded |-> FALSE]
                 ELSE [pages |-> counted, data |-> Append(data, protected.item),
                       outcome |-> "appended", yielded |-> TRUE]
        ELSE [pages |-> counted, data |-> data, outcome |-> "filtered", yielded |-> FALSE]

\* The accepted branch counting only the documents that pass the filter
OnAccepted_FilteredUncounted(config, pages, data, response) ==
    LET counted == CounterStep(pages, "accept")
        item == extract_configured_data(config, response)
    IN  IF _should_include_item(config, item)
        THEN LET protected == apply_data_protection(config, item)
             IN  IF protected.raised
                 THEN [pages |-> counted, data |-> data,
                       outcome |-> "error", yielded |-> FALSE]
                 ELSE [pages |-> counted, data |-> Append(data, protected.item),
                       outcome |-> "appended", yielded |-> TRUE]
        ELSE [pages |-> pages, data |-> data, outcome |-> "filtered", yielded |-> FALSE]

\* The body from the increment on
OnAccepted(config, pages, data, response) ==
    LET counted == CounterStep(pages, "accept")
        item == extract_configured_data(config, response)
    IN  IF _should_include_item(config, item)
        THEN LET protected == apply_data_protection(config, item)
             IN  IF protected.raised
                 THEN [pages |-> counted, data |-> data,
                       outcome |-> "error", yielded |-> FALSE]
                 ELSE [pages |-> counted, data |-> Append(data, protected.item),
                       outcome |-> "appended", yielded |-> TRUE]
        ELSE [pages |-> counted, data |-> data, outcome |-> "filtered", yielded |-> FALSE]

parse_item(config, pages, data, response) ==
    IF PageLimitReached(config, pages) THEN OnPageLimit(pages, data)
    ELSE IF DepthLimitReached(config, response) THEN OnDepthLimit(pages, data)
    ELSE OnAccepted(config, pages, data, response)

(***************************************************************************)
(* CSV header (_save_as_csv)                                               *)
(* all_fields is a Python set of strings: the order in which the loop      *)
(* "for field in all_fields" visits it depends on the strings' hashes,     *)
(* which change from process to process, so the order is an input here.    *)
(***************************************************************************)
RECURSIVE KeySet(_)
\* all_fields after the update loop
KeySet(data) ==
    IF data = <<>> THEN {}
    ELSE {Head(data)[i][1] : i \in 1..Len(Head(data))} \cup KeySet(Tail(data))

RECURSIVE SetIterationOrders(_)
\* Every order in which a set can be iterated
SetIterationOrders(S) ==
    IF S = {} THEN {<<>>}
    ELSE UNION {{<<x>> \o rest : rest \in SetIterationOrders(S \ {x})} : x \in S}

\* list(self.extract_fields.keys())
DeclaredNames(fields) == [i \in 1..Len(fields) |-> fields[i].name]

RECURSIVE AppendExtras(_, _)
\* for field in all_fields: if field not in fieldnames: fieldnames.append(field)
AppendExtras(fieldnames, order) ==
    IF order = <<>> THEN fieldnames
    ELSE AppendExtras(IF \E i \in 1..Len(fieldnames) : fieldnames[i] = Head(order)
                      THEN fieldnames
                      ELSE Append(fieldnames, Head(order)),
                      Tail(order))

\* The fieldnames given to csv.DictWriter; order enumerates all_fields
CsvFieldnames(fields, data, order) == AppendExtras(DeclaredNames(fields), order)

\* The text the csv writer puts in a cell: '' for None, else str(value)
\* (the text of a number, a timestamp or a digest is named by its value)
CsvCell(v) ==
    IF v = NoneV THEN StrV(<<>>)
    ELSE IF v.t \in {"str", "list", "bool"} THEN StrV(StrOf(v))
    ELSE v

\* DictWriter with a restval that marks the missing key instead of ''
CsvRow_MarksMissing(fieldnames, item) ==
    [i \in 1..Len(fieldnames) |->
        IF Has(item, fieldnames[i]) THEN CsvCell(Get(item, fieldnames[i]))
        ELSE StrV(S_ERROR)]

\* One writerow: rowdict.get(key, restval) for each fieldname, restval ''
CsvRow(fieldnames, item) ==
    [i \in 1..Len(fieldnames) |->
        IF Has(item, fieldnames[i]) THEN CsvCell(Get(item, fieldnames[i]))
        ELSE StrV(<<>>)]

\* The file written: writeheader(), then writerows(self.scraped_data)
_save_as_csv(fields, data, order) ==
    LET fieldnames == CsvFieldnames(fields, data, order)
    IN  [header |-> <<fieldnames>>,
         rows |-> [r \in 1..Len(data) |-> CsvRow(fieldnames, data[r])]]

(***************************************************************************)
(* YAML and JSON writers (_save_as_yaml, _save_as_json)                    *)
(* A dump is the sequence of mappings written, each a sequence of          *)
(* <<key, scalar>> entries in the order they stand in the file.            *)
(***************************************************************************)
\* The key names of this model in the order sorted() puts them
SortedKeyNames ==
    <<"contact_by", "email", "response_time", "scraped_at", "source_url",
      "title", "user_contacted">>

\* What a value is written as: null for None, else the value
DumpScalar(v) == IF v = NoneV THEN [t |-> "null"] ELSE v

RECURSIVE DumpEntries(_)
\* The entries of one mapping in the mapping's own order
DumpEntries(item) ==
    IF item = <<>> THEN <<>>
    ELSE <<<<Head(item)[1], DumpScalar(Head(item)[2])>>>> \o DumpEntries(Tail(item))

RECURSIVE SortedEntries(_, _)
\* The entries of one mapping in the order of names
SortedEntries(item, names) ==
    IF names = <<>> THEN <<>>
    ELSE (IF Has(item, Head(names))
          THEN <<<<Head(names), DumpScalar(Get(item, Head(names)))>>>>
          ELSE <<>>)
         \o SortedEntries(item, Tail(names))

\* json.dump(self.scraped_data, f, indent=2, ensure_ascii=False): a dict
\* is written in its own key order
_save_as_json(data) == [r \in 1..Len(data) |-> DumpEntries(data[r])]

\* yaml.dump(self.scraped_data, f, default_flow_style=False, indent=2):
\* sort_keys is left at its default, True, so each mapping is written with
\* its keys sorted
_save_as_yaml(data) == [r \in 1..Len(data) |-> SortedEntries(data[r], SortedKeyNames)]

\* The writer save_results picks for the output file's extension
WriterFor(extension, data) ==
    IF extension \in {".yaml", ".yml"} THEN _save_as_yaml(data) ELSE _save_as_json(data)

(***************************************************************************)
(* Job start (run_ethical_scraper, validate_lia_compliance)                *)
(* report is what the output directory holds: found (a report file         *)
(* exists), rated (a confidence rating can be parsed from it), rating.     *)
(***************************************************************************)
MinConfidence == 70

\* The rating threshold with <= for <
validate_lia_compliance_Strict(force, report) ==
    force \/ (report.found /\ report.rated /\ ~(report.rating <= MinConfidence))

validate_lia_compliance(force, report) ==
    IF force THEN TRUE
    ELSE IF ~report.found THEN FALSE
    ELSE IF ~report.rated THEN FALSE
    ELSE ~(report.rating < MinConfidence)

(***************************************************************************)
(* Spider construction (__init__)                                          *)
(* A target file is [kind, content]: kind says what opening and parsing    *)
(* it gives, content is the mapping it holds when kind = "mapping".        *)
(***************************************************************************)
FileKinds == {"none", "missing", "unreadable", "malformed", "empty",
              "not_a_mapping", "mapping"}

\* The mapping {}: has is the set of its keys
EmptyConfig == [has |-> {}, start_urls |-> <<>>, max_pages |-> 0]

DefaultMaxPages == 10

\* [raised |-> the exception that leaves the function ("" for none),
\*  config |-> the mapping returned]
_load_target_config(file) ==
    CASE file.kind = "none"          -> [raised |-> "", config |-> EmptyConfig]
      [] file.kind = "missing"       -> [raised |-> "", config |-> EmptyConfig]
      [] file.kind = "malformed"     -> [raised |-> "", config |-> EmptyConfig]
      [] file.kind = "unreadable"    -> [raised |-> "OSError", config |-> EmptyConfig]
      [] file.kind = "empty"         -> [raised |-> "AttributeError", config |-> EmptyConfig]
      [] file.kind = "not_a_mapping" -> [raised |-> "AttributeError", config |-> EmptyConfig]
      [] file.kind = "mapping"       -> [raised |-> "", config |-> file.content]

\* The attributes _setup_spider sets on the spider
_setup_spider(target_config) ==
    IF target_config.has = {} THEN {}
    ELSE {"start_urls", "allowed_domains", "job_name", "max_depth", "follow_links",
          "extract_fields", "output_config", "filters", "rules"}

\* setup_logging reads self.job_name: "" or the exception it raises
setup_logging(attrs) == IF "job_name" \in attrs THEN "" ELSE "AttributeError"

\* max_pages_arg is [given, n]: the max_pages argument, None when not given
EthicalSpider_init(file, max_pages_arg) ==
    LET loaded == _load_target_config(file)
        target_config == loaded.config
        max_pages == IF max_pages_arg.given THEN max_pages_arg.n
                     ELSE IF "max_pages" \in target_config.has
                          THEN target_config.max_pages
                          ELSE DefaultMaxPages
        attrs == _setup_spider(target_config)
        raised == IF loaded.raised # "" THEN loaded.raised ELSE setup_logging(attrs)
    IN  [raised |-> raised,
         target_config |-> target_config,
         max_pages |-> max_pages,
         attrs |-> IF loaded.raised # "" THEN {} ELSE attrs,
         start_urls |-> IF loaded.raised = "" /\ "start_urls" \in attrs
                           /\ "start_urls" \in target_config.has
                        THEN target_config.start_urls ELSE <<>>]

(***************************************************************************)
(* The configurations and documents explored                               *)
(***************************************************************************)
\* Documents one job is given (downloads by the fetch engine)
MaxDocs == 3
\* crawl_settings.max_pages ranges over 0..MaxPagesCfg
MaxPagesCfg == 2

T_url == <<"h",":","/","p">>
T_a_at_b == <<"a","@","b">>
T_c_at_d == <<"c","@","d">>
T_RED == <<"R","E","D">>
T_ok == <<"o","k">>
T_SPAM == <<"S","P","A","M"," ","x">>
T_x == <<"x">>
T_blank == <<" ">>
T_na == <<"n","/","a">>

NoValidation == [has |-> {}, pattern |-> [classes |-> <<>>, dollar |-> FALSE],
                 min_length |-> 0, max_length |-> 0]
NoPrivacy == [has |-> {}, pseudonymise |-> <<>>, anonymize |-> FALSE]

PseudonymiseOnly(method) ==
    [has |-> {"pseudonymise"}, pseudonymise |-> method, anonymize |-> FALSE]

\* The privacy blocks tried on the email field
PrivacyVariants ==
    { NoPrivacy,
      [has |-> {"anonymize"}, pseudonymise |-> <<>>, anonymize |-> TRUE],
      [has |-> {"pseudonymise", "anonymize"},
       pseudonymise |-> S_SHA256 \o <<":", "8">>, anonymize |-> TRUE],
      PseudonymiseOnly(S_SHA256),
      PseudonymiseOnly(S_Stub),
      PseudonymiseOnly(<<"M","D","5">>),
      PseudonymiseOnly(S_SHA256 \o <<":", "x">>) }

EmailField(privacy) ==
    [name |-> "email", selector |-> <<"a",".","m">>,
     transformations |-> <<Op("strip", TRUE)>>,
     has |-> IF privacy = NoPrivacy THEN {"required"} ELSE {"required", "privacy"},
     required |-> TRUE, default_value |-> NoneV,
     validation |-> NoValidation, privacy |-> privacy]

TitleField ==
    [name |-> "title", selector |-> <<"h","1",":",":","t","e","x","t">>,
     transformations |-> <<Op("strip", TRUE)>>,
     has |-> {"default_value", "validation"},
     required |-> FALSE, default_value |-> StrV(T_na),
     validation |-> [has |-> {"min_length"},
                     pattern |-> [classes |-> <<>>, dollar |-> FALSE],
                     min_length |-> 2, max_length |-> 0],
     privacy |-> NoPrivacy]

ExcludeRules ==
    << [field |-> "title", contains |-> <<"s","p","a","m">>],
       [field |-> "email", contains |-> <<"r","e","d">>] >>

\* start_urls is target_config.get('start_urls', []): empty when the key is
\* missing or its list is empty
Configs ==
    { [extract_fields |-> <<EmailField(pv), TitleField>>,
       exclude_if |-> ExcludeRules,
       max_pages |-> mp, max_depth |-> md, start_urls |-> su] :
      pv \in PrivacyVariants, mp \in 0..MaxPagesCfg, md \in {1, 2},
      su \in {<<>>, <<T_url>>} }

\* What the LIA gate can find: no report, an unreadable rating, a rating
\* just below and at the minimum
NoReport == [found |-> FALSE, rated |-> FALSE, rating |-> 0]
LiaCases ==
    { [force |-> FALSE, report |-> NoReport],
      [force |-> FALSE, report |-> [found |-> TRUE, rated |-> FALSE, rating |-> 0]],
      [force |-> FALSE, report |-> [found |-> TRUE, rated |-> TRUE, rating |-> MinConfidence - 1]],
      [force |-> FALSE, report |-> [found |-> TRUE, rated |-> TRUE, rating |-> MinConfidence]],
      [force |-> TRUE, report |-> NoReport] }

\* The gate is behind: the report is not read again
NoLia == [force |-> FALSE, report |-> NoReport, passed |-> TRUE]

Doc(depth, email, title) ==
    [url |-> T_url, depth |-> depth, latency |-> 1,
     css |-> [f \in {"email", "title"} |-> IF f = "email" THEN email ELSE title]]

Docs ==
    { Doc(0, CssOk(<<T_a_at_b>>), CssOk(<<T_ok>>)),
      Doc(0, CssOk(<<T_a_at_b>>), CssOk(<<T_SPAM>>)),
      Doc(1, CssOk(<<T_blank>>), CssOk(<<T_ok>>)),
      Doc(1, CssOk(<<T_RED>>), CssOk(<<T_ok>>)),
      Doc(0, CssOk(<<T_a_at_b, T_c_at_d>>), CssOk(<<T_ok>>)),
      Doc(0, CssRaise, CssOk(<<T_x>>)),
      Doc(0, CssOk(<<>>), CssOk(<<>>)) }

(***************************************************************************)
(* The crawl job                                                           *)
(***************************************************************************)
VARIABLES
    config,         \* target_config, fixed at construction
    pages_scraped,  \* self.pages_scraped
    scraped_data,   \* self.scraped_data
    phase,          \* "start" (run_ethical_scraper entered), "aborted" (exit(1)),
                    \* "running", "closing" (CloseSpider was raised), "closed"
    inflight,       \* documents downloaded and not yet given to parse_item
    suspended,      \* parse_item generators paused at their yield
    lastDoc,        \* <<the document of the latest parse_item>>, or <<>>
    outcome,        \* how the latest parse_item ended, "" before the first
    counts,         \* how many parse_item calls ended in each outcome
    reason,         \* the reason given to closed(), "" before
    save_calls,     \* calls of save_results
    write_calls,    \* calls of a _save_as_* writer
    save_raised,    \* an exception left save_results
    out_file,       \* the output file
    lia,            \* the force flag and the LIA report read at the start
    call,           \* a function called on its own, and its arguments
    result          \* [done, ...]: what the call returned

vars == <<config, pages_scraped, scraped_data, phase, inflight, suspended,
          lastDoc, outcome, counts, reason, save_calls, write_calls,
          save_raised, out_file, lia, call, result>>

\* No function is called on its own during a crawl job
NoCall == [fn |-> ""]
NoResult == [done |-> FALSE]

Delivered == counts["page_limit"] + counts["depth_limit"] + counts["filtered"]
             + counts["appended"] + counts["error"]

Init ==
    /\ config \in Configs
    /\ pages_scraped = 0
    /\ scraped_data = <<>>
    /\ phase = "start"
    /\ lia \in LiaCases
    /\ call = NoCall
    /\ result = NoResult
    /\ inflight = 0
    /\ suspended = 0
    /\ lastDoc = <<>>
    /\ outcome = ""
    /\ counts = [o \in Outcomes |-> 0]
    /\ reason = ""
    /\ save_calls = 0
    /\ write_calls = 0
    /\ save_raised = FALSE
    /\ out_file = NoFile

\* run_ethical_scraper: exit(1) when the LIA validation fails, else the
\* spider is constructed and the crawl starts
RunEthicalScraper ==
    /\ phase = "start"
    /\ IF validate_lia_compliance(lia.force, lia.report)
       THEN phase' = "running" /\ lia' = NoLia
       ELSE phase' = "aborted" /\ lia' = lia
    /\ UNCHANGED <<config, pages_scraped, scraped_data, inflight, suspended, lastDoc,
                   outcome, counts, reason, save_calls, write_calls, save_raised,
                   out_file, call, result>>

\* The fetch engine downloads one more document for the rule's callback,
\* reached from a start address; it requests nothing new once the spider
\* is closing.
Download ==
    /\ phase = "running"
    /\ config.start_urls # <<>>
    /\ Delivered + inflight < MaxDocs
    /\ inflight' = inflight + 1
    /\ UNCHANGED <<config, pages_scraped, scraped_data, phase, suspended, lastDoc,
                   outcome, counts, reason, save_calls, write_calls, save_raised,
                   out_file, lia, call, result>>

\* The engine gives a downloaded document to parse_item and runs the
\* generator to its yield, return or raise.
ParseItem ==
    \E response \in Docs :
        /\ inflight > 0
        /\ LET r == parse_item(config, pages_scraped, scraped_data, response)
           IN  /\ pages_scraped' = r.pages
               /\ scraped_data' = r.data
               /\ outcome' = r.outcome
               /\ counts' = [counts EXCEPT ![r.outcome] = @ + 1]
               /\ suspended' = IF r.yielded THEN suspended + 1 ELSE suspended
               /\ phase' = IF r.outcome = "page_limit" /\ phase = "running"
                           THEN "closing" ELSE phase
        /\ inflight' = inflight - 1
        /\ lastDoc' = <<response>>
        /\ UNCHANGED <<config, reason, save_calls, write_calls, save_raised, out_file,
                       lia, call, result>>

\* The engine resumes a generator after its yield; the body ends there.
Resume ==
    /\ suspended > 0
    /\ suspended' = suspended - 1
    /\ pages_scraped' = CounterStep(pages_scraped, "resume")
    /\ UNCHANGED <<config, scraped_data, phase, inflight, lastDoc, outcome, counts,
                   reason, save_calls, write_calls, save_raised, out_file,
                   lia, call, result>>

\* The engine closing the spider while documents are still being processed
EngineIdle_NoBarrier == TRUE

\* The engine closes a spider only when no document is in flight and no
\* callback output is left to consume.
EngineIdle == inflight = 0 /\ suspended = 0

\* closed(reason): the job ends, by exhaustion or after CloseSpider
Closed ==
    /\ phase \in {"running", "closing"}
    /\ EngineIdle
    /\ \E io \in IoResults :
          LET s == save_results(scraped_data, io)
          IN  /\ save_calls' = save_calls + 1
              /\ write_calls' = write_calls + s.writes
              /\ save_raised' = s.raised
              /\ out_file' = s.file
    /\ reason' = IF phase = "closing" THEN "Maximum pages reached" ELSE "finished"
    /\ phase' = "closed"
    /\ UNCHANGED <<config, pages_scraped, scraped_data, inflight, suspended, lastDoc,
                   outcome, counts, lia, call, result>>

Next == RunEthicalScraper \/ Download \/ ParseItem \/ Resume \/ Closed

Spec == Init /\ [][Next]_vars

(***************************************************************************)
(* The functions called on their own                                       *)
(* One call of one function on arguments drawn from the sets below; the    *)
(* crawl job stands still.                                                 *)
(***************************************************************************)
\* Longest rule list given to _should_include_item
MaxRules == 2

T_xok == <<"x","o","k">>
T_ok_nl == <<"o","k","\n">>

\* pseudonymise methods, with the truncation length each declares
MethodCases ==
    { [method |-> S_SHA256, hasN |-> FALSE, n |-> 0],
      [method |-> S_SHA256 \o <<":", "0">>, hasN |-> TRUE, n |-> 0],
      [method |-> S_SHA256 \o <<":", "8">>, hasN |-> TRUE, n |-> 8],
      [method |-> S_SHA256 \o <<":", "6", "4">>, hasN |-> TRUE, n |-> 64],
      [method |-> S_SHA256 \o <<":", "6", "5">>, hasN |-> TRUE, n |-> 65],
      [method |-> S_SHA256 \o <<":", "-", "4">>, hasN |-> TRUE, n |-> 0 - 4],
      [method |-> S_SHA256 \o <<":", "x">>, hasN |-> FALSE, n |-> 0] }

RawValues ==
    { StrV(T_a_at_b), StrV(T_c_at_d), StrV(T_x), ListV(<<T_a_at_b, T_c_at_d>>),
      StrV(<<>>) }

HashedField(method) ==
    [name |-> "email", selector |-> <<"a",".","m">>,
     transformations |-> <<>>, has |-> {"privacy"},
     required |-> FALSE, default_value |-> NoneV,
     validation |-> NoValidation, privacy |-> PseudonymiseOnly(method)]

\* Two runs of apply_data_protection under one field configuration
ProtectCalls ==
    { [fn |-> "apply_data_protection", m |-> m, raw_a |-> a, raw_b |-> b] :
      m \in MethodCases, a \in RawValues, b \in RawValues }

P_local_at == [classes |-> <<{LowerLetters[i] : i \in 1..26}, {"@"}>>, dollar |-> FALSE]
P_ok_end == [classes |-> <<{"o"}, {"k"}>>, dollar |-> TRUE]

ValidationRules ==
    { [has |-> h, pattern |-> p, min_length |-> mn, max_length |-> mx] :
      h \in SUBSET {"pattern", "min_length", "max_length"},
      p \in {P_local_at, P_ok_end}, mn \in {0, 2, 4}, mx \in {1, 3} }

ValidatedValues ==
    { NoneV, StrV(<<>>), ListV(<<>>), StrV(T_x), StrV(T_ok), StrV(T_ok_nl),
      StrV(T_xok), StrV(T_a_at_b), ListV(<<T_a_at_b, T_c_at_d>>) }

ValidateCalls ==
    { [fn |-> "_validate_field_value", value |-> v, validation |-> r] :
      v \in ValidatedValues, r \in ValidationRules }

EmailWithDefault ==
    [name |-> "email", selector |-> <<"a",".","m">>,
     transformations |-> <<Op("strip", TRUE)>>,
     has |-> {"required", "default_value"},
     required |-> TRUE, default_value |-> StrV(T_na),
     validation |-> NoValidation, privacy |-> NoPrivacy]

TitleNoDefault ==
    [name |-> "title", selector |-> <<"h","1",":",":","t","e","x","t">>,
     transformations |-> <<Op("strip", TRUE)>>,
     has |-> {"validation", "required"},
     required |-> TRUE, default_value |-> NoneV,
     validation |-> [has |-> {"min_length"},
                     pattern |-> [classes |-> <<>>, dollar |-> FALSE],
                     min_length |-> 2, max_length |-> 0],
     privacy |-> NoPrivacy]

TitlePlain ==
    [name |-> "title", selector |-> <<"h","1",":",":","t","e","x","t">>,
     transformations |-> <<>>, has |-> {},
     required |-> FALSE, default_value |-> NoneV,
     validation |-> NoValidation, privacy |-> NoPrivacy]

\* A title of at most three characters, without a default
TitleShort ==
    [name |-> "title", selector |-> <<"h","1",":",":","t","e","x","t">>,
     transformations |-> <<Op("strip", TRUE)>>,
     has |-> {"validation"},
     required |-> FALSE, default_value |-> NoneV,
     validation |-> [has |-> {"max_length"},
                     pattern |-> [classes |-> <<>>, dollar |-> FALSE],
                     min_length |-> 0, max_length |-> 3],
     privacy |-> NoPrivacy]

\* A declared field that bears the name of a metadata key
SourceUrlField(privacy) ==
    [name |-> "source_url", selector |-> S_response_url,
     transformations |-> <<>>,
     has |-> IF privacy = NoPrivacy THEN {} ELSE {"privacy"},
     required |-> FALSE, default_value |-> NoneV,
     validation |-> NoValidation, privacy |-> privacy]

ParseConfigs ==
    { [extract_fields |-> <<e, t>>, exclude_if |-> ExcludeRules,
       max_pages |-> 1, max_depth |-> 1, start_urls |-> <<T_url>>] :
      e \in {EmailField(NoPrivacy),
             EmailField(PseudonymiseOnly(S_SHA256 \o <<":", "8">>)),
             EmailField(PseudonymiseOnly(S_SHA256 \o <<":", "x">>)),
             EmailWithDefault},
      t \in {TitleField, TitleNoDefault, TitlePlain, TitleShort} }
    \cup
    { [extract_fields |-> <<SourceUrlField(pv), EmailField(PseudonymiseOnly(S_Stub)),
                           TitleField>>,
       exclude_if |-> ExcludeRules,
       max_pages |-> 1, max_depth |-> 1, start_urls |-> <<T_url>>] :
      pv \in {NoPrivacy, PseudonymiseOnly(S_Stub),
              [has |-> {"anonymize"}, pseudonymise |-> <<>>, anonymize |-> TRUE]} }

ParseDocs ==
    { Doc(0, e, t) :
      e \in {CssOk(<<T_a_at_b>>), CssOk(<<T_blank>>), CssOk(<<>>), CssRaise},
      t \in {CssOk(<<T_ok>>), CssOk(<<T_x>>), CssOk(<<T_SPAM>>), CssOk(<<>>),
             CssRaise} }

ParseCalls ==
    { [fn |-> "parse_item", cfg |-> c, response |-> d] :
      c \in ParseConfigs, d \in ParseDocs }

FilterRules ==
    { [field |-> "title", contains |-> <<"s","p","a","m">>],
      [field |-> "title", contains |-> <<>>],
      [field |-> "email", contains |-> T_RED],
      [field |-> "zip", contains |-> T_x] }

RuleLists == UNION { [1..n -> FilterRules] : n \in 0..MaxRules }

FilteredItems ==
    { (IF t = <<>> THEN EmptyDict ELSE Put(EmptyDict, "title", t[1]))
      \o (IF e = <<>> THEN EmptyDict ELSE Put(EmptyDict, "email", e[1])) :
      t \in {<<>>, <<NoneV>>, <<StrV(<<>>)>>, <<StrV(T_SPAM)>>, <<StrV(T_ok)>>,
             <<ListV(<<T_ok, T_SPAM>>)>>},
      e \in {<<>>, <<StrV(T_RED)>>, <<StrV(T_a_at_b)>>} }

IncludeCalls ==
    { [fn |-> "_should_include_item", filters |-> [exclude_if |-> rl], item |-> it] :
      rl \in RuleLists, it \in FilteredItems }

TargetFiles ==
    { [kind |-> k, content |-> EmptyConfig] : k \in FileKinds \ {"mapping"} }
    \cup { [kind |-> "mapping", content |-> c] :
           c \in { EmptyConfig,
                   [has |-> {"job_name"}, start_urls |-> <<>>, max_pages |-> 0],
                   [has |-> {"job_name", "start_urls"},
                    start_urls |-> <<T_url>>, max_pages |-> 0],
                   [has |-> {"job_name", "start_urls", "max_pages"},
                    start_urls |-> <<T_url>>, max_pages |-> 2] } }

ConstructCalls ==
    { [fn |-> "__init__", file |-> f, max_pages_arg |-> a] :
      f \in TargetFiles,
      a \in {[given |-> FALSE, n |-> 0], [given |-> TRUE, n |-> 1]} }

CsvConfig ==
    [extract_fields |-> <<EmailField([has |-> {"anonymize"}, pseudonymise |-> <<>>,
                                      anonymize |-> TRUE]),
                          TitleField>>,
     exclude_if |-> <<>>, max_pages |-> 1, max_depth |-> 1, start_urls |-> <<T_url>>]

\* The record parse_item appends for a document
RecordOf(cfg, response) ==
    apply_data_protection(cfg, extract_configured_data(cfg, response)).item

\* email anonymized away; title kept, or dropped by its validation
CsvCollections ==
    { <<RecordOf(CsvConfig, Doc(0, CssOk(<<T_a_at_b>>), CssOk(<<T_ok>>)))>>,
      <<RecordOf(CsvConfig, Doc(0, CssOk(<<T_a_at_b>>), CssOk(<<T_x>>))),
        RecordOf(CsvConfig, Doc(0, CssOk(<<>>), CssOk(<<T_ok>>)))>> }

CsvCalls ==
    { [fn |-> "_save_as_csv", fields |-> CsvConfig.extract_fields, data |-> d] :
      d \in CsvCollections }

DumpCalls ==
    { [fn |-> "dump", extension |-> e, records |-> d] :
      e \in {".json", ".yaml", ".yml"}, d \in CsvCollections }

\* A field of no default, validation or privacy, queried as "title"
NestedField(selector, transformations) ==
    [name |-> "title", selector |-> selector, transformations |-> transformations,
     has |-> {}, required |-> FALSE, default_value |-> NoneV,
     validation |-> NoValidation, privacy |-> NoPrivacy]

\* What the field's query returns: nothing, one, two and three texts
NestedValues ==
    { <<>>, <<T_ok>>, <<T_blank>>, <<<<>>>>, <<T_ok, T_x>>, <<<<>>, T_ok>>,
      <<T_blank, <<>>>>, <<T_ok, T_x, T_SPAM>> }

Chains ==
    { <<>>, <<Op("strip", TRUE)>>, <<Op("uppercase", TRUE)>>, <<Op("limit", 0)>>,
      <<Op("limit", 1)>>, <<Op("limit", 2)>>, <<Op("join", T_blank)>>,
      <<Op("truncate", 1)>>, <<Op("strip", TRUE), Op("limit", 1)>>,
      <<Op("limit", 0), Op("join", T_blank)>>,
      <<Op("uppercase", TRUE), Op("join", <<>>)>> }

NestedCalls ==
    { [fn |-> "_extract_nested_field",
       response |-> Doc(0, CssOk(<<>>), CssOk(vs)),
       fc |-> NestedField(sel, ch)] :
      vs \in NestedValues, ch \in Chains,
      sel \in {S_response_url, <<"h","1",":",":","t","e","x","t">>} }

\* Entries of at most MaxEntryLen characters, affixes of at most MaxAffixLen
MaxEntryLen == 3
MaxAffixLen == 2
Texts(n) == UNION { [1..k -> {"a", "b"}] : k \in 0..n }

TransformCalls ==
    { [fn |-> "_apply_nested_transformations", values |-> <<v>>,
       transformations |-> <<Op(o, s)>>] :
      v \in Texts(MaxEntryLen), s \in Texts(MaxAffixLen),
      o \in {"remove_prefix", "remove_suffix"} }

P_paren == <<"(","5","5","5",")"," ","1","2","3","-","4","5","6","7">>
P_plain == <<"5","5","5","1","2","3","4","5","6","7">>
P_short == <<"5","5","5","-","1","2","3","4">>
P_inner_plus == <<"5","5","5","+","1","2","3","4","5","6">>
P_canonical == <<"+","1","5","5","5","1","2","3","4","5","6","7">>

\* Phone texts: a lead, a body and a tail
PhoneInputs ==
    { pre \o mid \o suf :
      pre \in {<<>>, <<"+">>, <<"1">>, <<"2">>, <<"1", "-">>, <<"x">>,
               <<"+", "4", "4", " ">>},
      mid \in {P_paren, P_plain, P_short, P_inner_plus, <<>>},
      suf \in {<<>>, <<"0">>, <<" ">>} }

PhoneCalls == { [fn |-> "_normalize_phone", phone |-> p] : p \in PhoneInputs }

Calls ==
    ProtectCalls \cup ValidateCalls \cup ParseCalls \cup IncludeCalls
    \cup ConstructCalls \cup CsvCalls \cup DumpCalls \cup NestedCalls
    \cup TransformCalls \cup PhoneCalls

IdleConfig ==
    [extract_fields |-> <<>>, exclude_if |-> <<>>, max_pages |-> 0, max_depth |-> 0,
     start_urls |-> <<>>]

CallInit ==
    /\ call \in Calls
    /\ result = NoResult
    /\ config = IdleConfig
    /\ pages_scraped = 0
    /\ scraped_data = <<>>
    /\ phase = "idle"
    /\ inflight = 0
    /\ suspended = 0
    /\ lastDoc = <<>>
    /\ outcome = ""
    /\ counts = [o \in Outcomes |-> 0]
    /\ reason = ""
    /\ save_calls = 0
    /\ write_calls = 0
    /\ save_raised = FALSE
    /\ out_file = NoFile
    /\ lia = NoLia

JobUnchanged ==
    UNCHANGED <<config, pages_scraped, scraped_data, phase, inflight, suspended,
                lastDoc, outcome, counts, reason, save_calls, write_calls,
                save_raised, out_file, lia, call>>

\* apply_data_protection run twice, on a record holding raw_a and on one
\* holding raw_b
CallProtect ==
    /\ call.fn = "apply_data_protection" /\ ~result.done
    /\ LET cfg == [extract_fields |-> <<HashedField(call.m.method)>>]
       IN  result' = [done |-> TRUE,
                      a |-> apply_data_protection(cfg, Put(EmptyDict, "email", call.raw_a)),
                      b |-> apply_data_protection(cfg, Put(EmptyDict, "email", call.raw_b))]
    /\ JobUnchanged

CallValidate ==
    /\ call.fn = "_validate_field_value" /\ ~result.done
    /\ result' = [done |-> TRUE,
                  valid |-> _validate_field_value(call.value, call.validation)]
    /\ JobUnchanged

\* parse_item on a fresh spider; item is the record it assembled
CallParse ==
    /\ call.fn = "parse_item" /\ ~result.done
    /\ result' = [done |-> TRUE,
                  item |-> extract_configured_data(call.cfg, call.response),
                  r |-> parse_item(call.cfg, 0, <<>>, call.response)]
    /\ JobUnchanged

CallInclude ==
    /\ call.fn = "_should_include_item" /\ ~result.done
    /\ result' = [done |-> TRUE,
                  include |-> _should_include_item(call.filters, call.item)]
    /\ JobUnchanged

CallConstruct ==
    /\ call.fn = "__init__" /\ ~result.done
    /\ result' = [done |-> TRUE,
                  spider |-> EthicalSpider_init(call.file, call.max_pages_arg)]
    /\ JobUnchanged

\* _save_as_csv: the header follows the set's iteration order
CallCsv ==
    /\ call.fn = "_save_as_csv" /\ ~result.done
    /\ \E order \in SetIterationOrders(KeySet(call.data)) :
          result' = [done |-> TRUE,
                     fieldnames |-> CsvFieldnames(call.fields, call.data, order),
                     file |-> _save_as_csv(call.fields, call.data, order)]
    /\ JobUnchanged

\* _save_as_yaml or _save_as_json, as save_results dispatches
CallDump ==
    /\ call.fn = "dump" /\ ~result.done
    /\ result' = [done |-> TRUE, dump |-> WriterFor(call.extension, call.records)]
    /\ JobUnchanged

\* left is what the pipeline returns for the field's query
CallExtractNested ==
    /\ call.fn = "_extract_nested_field" /\ ~result.done
    /\ result' = [done |-> TRUE,
                  value |-> _extract_nested_field(call.response, call.fc),
                  left |-> _apply_nested_transformations(
                               call.response.css[call.fc.name].values,
                               call.fc.transformations)]
    /\ JobUnchanged

CallTransform ==
    /\ call.fn = "_apply_nested_transformations" /\ ~result.done
    /\ result' = [done |-> TRUE,
                  values |-> _apply_nested_transformations(
                                 call.values, call.transformations)]
    /\ JobUnchanged

CallNormalizePhone ==
    /\ call.fn = "_normalize_phone" /\ ~result.done
    /\ result' = [done |-> TRUE, value |-> _normalize_phone(call.phone)]
    /\ JobUnchanged

CallNext ==
    CallProtect \/ CallValidate \/ CallParse \/ CallInclude \/ CallConstruct
    \/ CallCsv \/ CallDump \/ CallExtractNested \/ CallTransform
    \/ CallNormalizePhone

CallSpec == CallInit /\ [][CallNext]_vars

(***************************************************************************)
(* Properties                                                              *)
(***************************************************************************)
FieldsWhere(P(_)) ==
    {i \in 1..Len(config.extract_fields) : P(config.extract_fields[i])}

IsAnonymized(fc) ==
    "privacy" \in fc.has /\ "anonymize" \in fc.privacy.has /\ fc.privacy.anonymize

IsPseudonymised(fc) == "privacy" \in fc.has /\ "pseudonymise" \in fc.privacy.has

IsAnonymizedAndPseudonymised(fc) == IsAnonymized(fc) /\ IsPseudonymised(fc)

\* The record the latest accepted document was assembled into, before the
\* filter and the privacy engine
LastAssembled == extract_configured_data(config, lastDoc[1])

LastAppended == scraped_data[Len(scraped_data)]

\* C1: a field declared anonymize=true is a key of no record of the
\* collection, whatever value was extracted for it.
C1_AnonymizedFieldAbsent ==
    \A r \in 1..Len(scraped_data) : \A i \in FieldsWhere(IsAnonymized) :
        ~Has(scraped_data[r], config.extract_fields[i].name)

\* C2: the processed-page counter never exceeds max_pages.
C2_PagesWithinLimit == pages_scraped <= config.max_pages

\* C2 witness: the counter has reached a positive limit and a further
\* document was rejected for it.
C2_LimitReached ==
    config.max_pages > 0 /\ pages_scraped = config.max_pages /\ counts["page_limit"] > 0

\* C3: once a document has been rejected for the page limit, every later
\* document is rejected for it too, and neither the counter nor the
\* collection changes again.
C3_PageLimitTerminal ==
    [][counts["page_limit"] > 0 =>
          /\ pages_scraped' = pages_scraped
          /\ scraped_data' = scraped_data
          /\ (counts' # counts => outcome' = "page_limit")]_vars

\* C3 witness: a second document was rejected after the first rejection.
C3_RejectedAgain == counts["page_limit"] >= 2

\* C4 as stated: a document rejected for its depth is counted (the counter
\* is incremented for it).
C4_DepthLimitedDocumentCounted ==
    [][counts'["depth_limit"] > counts["depth_limit"] =>
          pages_scraped' = pages_scraped + 1]_vars

\* C4 as amended: a document whose depth equals or exceeds max_depth, given
\* while the page limit is not reached, is skipped: the counter, the
\* collection and the job's phase stay as they were.
C4_DepthLimitedDocumentSkipped ==
    [][counts'["depth_limit"] > counts["depth_limit"] =>
          /\ pages_scraped < config.max_pages
          /\ pages_scraped' = pages_scraped
          /\ scraped_data' = scraped_data
          /\ phase' = phase]_vars

\* C4 witness: a document was rejected for its depth below the page limit.
C4_DepthRejected ==
    /\ outcome = "depth_limit"
    /\ lastDoc[1].depth >= config.max_depth
    /\ pages_scraped < config.max_pages

\* C5: the filter decides on the assembled record as it is before privacy
\* processing, privacy is applied only to a record the filter keeps, and the
\* record appended is the privacy-processed one.
C5_StageOrder ==
    outcome \in {"filtered", "appended", "error"} =>
        LET kept == _should_include_item(config, LastAssembled)
            protected == apply_data_protection(config, LastAssembled)
        IN  /\ outcome = "filtered" <=> ~kept
            /\ outcome = "appended" =>
                  /\ ~protected.raised
                  /\ scraped_data # <<>>
                  /\ LastAppended = protected.item
            /\ outcome = "error" => kept /\ protected.raised

\* C5 witness: a kept record was appended with its email replaced by the
\* redaction marker, which the filter's rule on email would have excluded.
C5_KeptThenRedacted ==
    /\ outcome = "appended"
    /\ Has(LastAssembled, "email")
    /\ Get(LastAssembled, "email") = StrV(T_a_at_b)
    /\ Has(LastAppended, "email")
    /\ Get(LastAppended, "email") = StrV(S_REDACTED)
    /\ RuleExcludes(config.exclude_if[2], LastAppended)

\* C6 as stated: at job end, file system permitting, the collection has
\* been written out exactly once, whatever it holds.
C6_CollectionWrittenOnce ==
    (phase = "closed" /\ ~save_raised /\ out_file.state # "partial") =>
        (save_calls = 1 /\ write_calls = 1)

\* C6 as amended: save_results is called exactly once, at job end; a
\* non-empty collection goes to a writer exactly once (not at all when the
\* output directory cannot be created), an empty one is never written.
C6_SaveOnceAtJobEnd ==
    /\ phase # "closed" => save_calls = 0 /\ write_calls = 0 /\ out_file = NoFile
    /\ phase = "closed" =>
          /\ save_calls = 1
          /\ write_calls = IF scraped_data # <<>> /\ ~save_raised THEN 1 ELSE 0
          /\ scraped_data = <<>> => out_file = NoFile /\ ~save_raised
          /\ out_file.state = "complete" => out_file.data = scraped_data

\* C6 witness: a job ended by the page limit with an empty collection.
C6_EmptyJobClosed ==
    /\ phase = "closed"
    /\ reason = "Maximum pages reached"
    /\ scraped_data = <<>>
    /\ save_calls = 1

C8_AtomicCheckAndCount ==
    /\ pages_scraped <= config.max_pages
    /\ pages_scraped = counts["appended"] + counts["filtered"] + counts["error"]
    /\ Len(scraped_data) = counts["appended"]

\* C8 witness: two generators are paused at their yield while a third
\* document is in flight.
C8_ConcurrentCallbacks == suspended >= 2 /\ inflight > 0

\* C9: a field that declares both pseudonymise and anonymize=true is a key
\* of no record of the collection.
C9_AnonymizeWinsOverPseudonymise ==
    \A r \in 1..Len(scraped_data) : \A i \in FieldsWhere(IsAnonymizedAndPseudonymised) :
        ~Has(scraped_data[r], config.extract_fields[i].name)

IsReplacement(v) == v.t = "hex" \/ v = StrV(S_REDACTED)

\* C10: a pseudonymised field with a non-empty value never holds the raw
\* value in the appended record: it holds a digest or the redaction marker.
C10_PseudonymisedNeverRaw ==
    outcome = "appended" =>
        \A i \in FieldsWhere(IsPseudonymised) :
            LET name == config.extract_fields[i].name
            IN  (Has(LastAssembled, name) /\ Truthy(Get(LastAssembled, name))
                 /\ Has(LastAppended, name)) =>
                    /\ IsReplacement(Get(LastAppended, name))
                    /\ Get(LastAppended, name) # Get(LastAssembled, name)

(***************************************************************************)
(* Properties of the functions called on their own (CallSpec)              *)
(***************************************************************************)
Protected(which) == Get(which.item, "email")

NullOrEmpty(v) == v = NoneV \/ v = StrV(<<>>) \/ v = ListV(<<>>)

\* C12: _validate_field_value returns true for every null or empty value
\* whatever the rule; for a non-empty value it returns true exactly when
\* the stringified value satisfies every constraint the rule holds: the
\* pattern matches from the start of the text, the length is at least
\* min_length, the length is at most max_length. A rule with no constraint
\* accepts everything.
C12_ValidatorRule ==
    (call.fn = "_validate_field_value" /\ result.done) =>
        LET text == StrOf(call.value)
            rule == call.validation
        IN  /\ NullOrEmpty(call.value) => result.valid
            /\ rule.has = {} => result.valid
            /\ ~NullOrEmpty(call.value) =>
                  (result.valid <=>
                      /\ "pattern" \in rule.has => ReMatch(rule.pattern, text)
                      /\ "min_length" \in rule.has => Len(text) >= rule.min_length
                      /\ "max_length" \in rule.has => Len(text) <= rule.max_length)

\* "xok" holds "ok" but not at its start: rejected by the pattern alone
C12_PatternNotAtStart ==
    /\ call.fn = "_validate_field_value" /\ result.done
    /\ call.value = StrV(T_xok)
    /\ call.validation.has = {"pattern", "min_length", "max_length"}
    /\ call.validation.pattern = P_ok_end
    /\ call.validation.min_length = 2 /\ call.validation.max_length = 3
    /\ ~result.valid

\* The fields of the configuration parse_item was called with
CalledFields == {call.cfg.extract_fields[i] : i \in 1..Len(call.cfg.extract_fields)}

\* What a field's query gave on the called document, after the default
ExtractedValue(fc) ==
    LET extracted == _extract_nested_field(call.response, fc)
    IN  IF extracted = NoneV /\ "default_value" \in fc.has
        THEN fc.default_value ELSE extracted

Raises(fc) == ExtractionRaises(call.response, fc)

FailsValidation(fc) ==
    /\ ~Raises(fc)
    /\ ~NullOrEmpty(ExtractedValue(fc))
    /\ "validation" \in fc.has
    /\ ~_validate_field_value(ExtractedValue(fc), fc.validation)

HasMetadata(item) == \A i \in 1..Len(MetadataKeys) : Has(item, MetadataKeys[i])

\* The assembled record went on to the filter and the privacy engine, and
\* was appended unless the filter excluded it or the privacy engine raised
Proceeds ==
    LET protected == apply_data_protection(call.cfg, result.item)
        kept == _should_include_item(call.cfg, result.item)
    IN  /\ result.r.pages = 1
        /\ result.r.outcome = IF ~kept THEN "filtered"
                              ELSE IF protected.raised THEN "error" ELSE "appended"
        /\ result.r.data = IF kept /\ ~protected.raised
                           THEN <<protected.item>> ELSE <<>>

\* C13: when a non-empty extracted value fails its validation rule, the
\* field is left unset in the record (its name is not a key: neither an
\* error marker nor the default stands in for it), the other fields and
\* the metadata are still assembled, and the record goes on to the filter
\* and the privacy engine.
C13_InvalidFieldLeftUnset ==
    (call.fn = "parse_item" /\ result.done) =>
        \A fc \in CalledFields :
            FailsValidation(fc) =>
                /\ ~Has(result.item, fc.name)
                /\ result.r.outcome = "appended" => ~Has(result.r.data[1], fc.name)
                /\ \A other \in CalledFields \ {fc} :
                      ~FailsValidation(other) => Has(result.item, other.name)
                /\ HasMetadata(result.item)
                /\ Proceeds

\* A one-letter title fails min_length 2 although a default is configured;
\* the record is appended with its email and without a title
C13_RecordWithoutTitle ==
    /\ call.fn = "parse_item" /\ result.done
    /\ call.cfg.extract_fields[2] = TitleField
    /\ FailsValidation(TitleField)
    /\ result.r.outcome = "appended"
    /\ ~Has(result.r.data[1], "title")
    /\ Get(result.r.data[1], "email") = StrV(T_a_at_b)

\* C14: a required field that is missing (null or empty once the default
\* was applied) never blocks assembly: the record is built with the field
\* as extracted, passed to the filter and, unless excluded, appended.
C14_RequiredMissingDoesNotBlock ==
    (call.fn = "parse_item" /\ result.done) =>
        \A fc \in CalledFields :
            ("required" \in fc.has /\ fc.required /\ ~Raises(fc)
             /\ NullOrEmpty(ExtractedValue(fc))) =>
                /\ Has(result.item, fc.name)
                /\ Get(result.item, fc.name) = ExtractedValue(fc)
                /\ HasMetadata(result.item)
                /\ Proceeds

\* The required email is blank on the document; the record is appended
C14_AppendedWithoutEmail ==
    /\ call.fn = "parse_item" /\ result.done
    /\ call.cfg.extract_fields[1] = EmailField(NoPrivacy)
    /\ ExtractedValue(EmailField(NoPrivacy)) = StrV(<<>>)
    /\ result.r.outcome = "appended"
    /\ Get(result.r.data[1], "email") = StrV(<<>>)

\* C16: an error while extracting or transforming one field is recovered
\* locally: the field is set to its configured default_value, or to the
\* generic error marker when no default is configured; the other fields
\* are still extracted and the record is still assembled.
C16_FieldErrorRecoveredLocally ==
    (call.fn = "parse_item" /\ result.done) =>
        \A fc \in CalledFields :
            Raises(fc) =>
                /\ Has(result.item, fc.name)
                /\ Get(result.item, fc.name) =
                      IF "default_value" \in fc.has THEN fc.default_value
                      ELSE StrV(S_ERROR)
                /\ \A other \in CalledFields :
                      ~Raises(other) =>
                          /\ Has(result.item, other.name) <=> ~FailsValidation(other)
                          /\ Has(result.item, other.name) =>
                                Get(result.item, other.name) = ExtractedValue(other)
                /\ HasMetadata(result.item)
                /\ Proceeds

\* The title query raises: the title is its default, the email is
\* extracted, the record is appended
C16_DefaultAfterError ==
    /\ call.fn = "parse_item" /\ result.done
    /\ call.cfg.extract_fields[2] = TitleField
    /\ Raises(TitleField)
    /\ result.r.outcome = "appended"
    /\ Get(result.r.data[1], "title") = StrV(T_na)
    /\ Get(result.r.data[1], "email") = StrV(T_a_at_b)

Rules == {call.filters.exclude_if[i] : i \in 1..Len(call.filters.exclude_if)}

\* The rule's field is a key of the called item, with a non-empty value
\* whose text holds the rule's substring, letter case apart
ValueHolds(rule) ==
    /\ Has(call.item, rule.field)
    /\ ~NullOrEmpty(Get(call.item, rule.field))
    /\ Contains(Lower(StrOf(Get(call.item, rule.field))), Lower(rule.contains))

\* C15 as stated: _should_include_item returns false exactly when some
\* exclusion rule names a field present in the record with a non-empty
\* value whose stringified form contains the rule's `contains` substring
\* case-insensitively.
C15_ExcludedIffValueHolds ==
    (call.fn = "_should_include_item" /\ result.done) =>
        (~result.include <=> \E rule \in Rules : ValueHolds(rule))

\* C15, amended: _should_include_item returns false exactly when some
\* exclusion rule with a non-empty `contains` names a field present in the
\* record with a non-empty value whose stringified form contains that
\* substring case-insensitively; a rule whose `contains` is empty never
\* excludes, nor does an absent field or an empty value.
C15_ExcludedIffNonEmptySubstringHeld ==
    (call.fn = "_should_include_item" /\ result.done) =>
        (~result.include <=>
            \E rule \in Rules : rule.contains # <<>> /\ ValueHolds(rule))

\* The rule "spam" excludes the title "SPAM x"
C15_SpamExcluded ==
    /\ call.fn = "_should_include_item" /\ result.done
    /\ call.filters.exclude_if = <<[field |-> "title", contains |-> <<"s","p","a","m">>]>>
    /\ Has(call.item, "title") /\ Get(call.item, "title") = StrV(T_SPAM)
    /\ ~result.include

\* C17: a missing, unreadable or malformed (including empty) configuration
\* file degrades to an empty configuration: the spider is constructed
\* without error, with no start addresses and default settings.
C17_BadFileDegradesToEmpty ==
    (call.fn = "__init__" /\ result.done
     /\ call.file.kind \in {"missing", "unreadable", "malformed", "empty"}) =>
        /\ result.spider.raised = ""
        /\ result.spider.target_config = EmptyConfig
        /\ result.spider.start_urls = <<>>
        /\ ~call.max_pages_arg.given => result.spider.max_pages = DefaultMaxPages

(***************************************************************************)
(* Properties of the crawl job (Spec), continued                           *)
(***************************************************************************)
\* save_results was called on a non-empty collection and left no complete
\* file: creating the directory or writing the file failed
SerializationFailed ==
    phase = "closed" /\ scraped_data # <<>> /\ out_file.state # "complete"

\* C18: when serialization fails (creating the output directory or
\* writing the file), the failure does not propagate out of save_results,
\* the in-memory collection is left as it was, and the write is not
\* retried.
C18_SaveFailureContained ==
    SerializationFailed =>
        /\ ~save_raised
        /\ Len(scraped_data) = counts["appended"]
        /\ save_calls = 1
        /\ write_calls <= 1

NothingProcessed ==
    Delivered = 0 /\ inflight = 0 /\ pages_scraped = 0 /\ scraped_data = <<>>
    /\ write_calls = 0

\* C19 as stated: the absence of any start address is a fatal
\* precondition checked once at job start: a job whose configuration has
\* empty or missing start_urls is terminated before any document is
\* processed, and nothing else terminates the process.
C19_OnlyMissingStartAddressTerminates ==
    phase # "start" => (phase = "aborted" <=> config.start_urls = <<>>)

\* The gate's inputs make the LIA validation fail
LiaFails ==
    /\ ~lia.force
    /\ \/ ~lia.report.found
       \/ ~lia.report.rated
       \/ lia.report.rating < MinConfidence

\* C19, amended: a job whose configuration has empty or missing start_urls
\* processes no document (nothing is delivered to parse_item, counted,
\* collected or written), but no check terminates it for that. The one
\* fatal check at job start is the LIA validation: run_ethical_scraper
\* terminates the process, before any document is processed, exactly when
\* no force flag is given and the latest report is missing, has no
\* readable rating, or rates below the minimum.
C19_OnlyLiaFailureTerminates ==
    [][ /\ config.start_urls = <<>> => NothingProcessed'
        /\ phase = "start" => (phase' = "aborted" <=> LiaFails)
        /\ phase' = "aborted" => (phase = "start" /\ NothingProcessed')
      ]_vars

\* A job without start addresses passed the gate and ended normally
C19_EmptyJobFinished ==
    /\ config.start_urls = <<>>
    /\ phase = "closed" /\ reason = "finished"
    /\ NothingProcessed
    /\ save_calls = 1

(***************************************************************************)
(* Properties of the functions called on their own (CallSpec), continued   *)
(***************************************************************************)
RECURSIVE KeysInScanOrder(_)
\* The keys of the records, record after record
KeysInScanOrder(data) ==
    IF data = <<>> THEN <<>> ELSE Keys(Head(data)) \o KeysInScanOrder(Tail(data))

\* C20: the CSV header lists the declared fields in configuration order,
\* followed by every key that occurs in some record and is not declared,
\* in the order first seen while scanning the records; the same
\* collection and configuration always give the same column order.
C20_CsvHeaderFirstSeenOrder ==
    (call.fn = "_save_as_csv" /\ result.done) =>
        result.fieldnames =
            AppendExtras(DeclaredNames(call.fields), KeysInScanOrder(call.data))

C22_DumpKeepsKeyOrder ==
    (call.fn = "dump" /\ result.done) =>
        /\ Len(result.dump) = Len(call.records)
        /\ \A r \in 1..Len(call.records) :
              /\ Len(result.dump[r]) = Len(call.records[r])
              /\ \A k \in 1..Len(call.records[r]) :
                    /\ result.dump[r][k][1] = call.records[r][k][1]
                    /\ result.dump[r][k][2] = DumpScalar(call.records[r][k][2])

\* C23: every record in the collection carries the mandatory metadata keys
\* scraped_at, source_url, response_time, contact_by and user_contacted,
\* for every configuration of declared fields, including fields whose names
\* or privacy policies coincide with metadata names.
C23_MetadataAlwaysPresent ==
    (call.fn = "parse_item" /\ result.done) =>
        \A r \in 1..Len(result.r.data) : HasMetadata(result.r.data[r])

\* The text satisfies every constraint the rule holds
SatisfiesRule(v, rule) ==
    /\ "pattern" \in rule.has => ReMatch(rule.pattern, StrOf(v))
    /\ "min_length" \in rule.has => Len(StrOf(v)) >= rule.min_length
    /\ "max_length" \in rule.has => Len(StrOf(v)) <= rule.max_length

StoredValueValid(fc) ==
    Has(result.item, fc.name) =>
        \/ NullOrEmpty(Get(result.item, fc.name))
        \/ SatisfiesRule(Get(result.item, fc.name), fc.validation)

\* C28 as stated: for every field that declares a validation rule, the
\* value assembled into the record by extract_configured_data is either
\* absent, empty, or a value that satisfies the rule; no path through
\* extraction, default substitution or error recovery stores a non-empty
\* value that fails the field's rule.
C28_StoredValueAlwaysValid ==
    (call.fn = "parse_item" /\ result.done) =>
        \A fc \in CalledFields : "validation" \in fc.has => StoredValueValid(fc)

\* C28, amended: for every field that declares a validation rule, the
\* value stored by extraction and default substitution is either absent,
\* empty, or satisfies the rule; error recovery does not validate: when
\* the field's extraction raises, its default_value, or the error marker
\* when it has none, is stored whether or not it satisfies the rule.
C28_StoredValueValidUnlessRecovered ==
    (call.fn = "parse_item" /\ result.done) =>
        \A fc \in CalledFields :
            "validation" \in fc.has =>
                /\ ~Raises(fc) => StoredValueValid(fc)
                /\ Raises(fc) =>
                      /\ Has(result.item, fc.name)
                      /\ Get(result.item, fc.name) =
                            IF "default_value" \in fc.has THEN fc.default_value
                            ELSE StrV(S_ERROR)

\* The title query matches nothing: the default is substituted, passes
\* the rule and is stored
C28_DefaultValidated ==
    /\ call.fn = "parse_item" /\ result.done
    /\ call.cfg.extract_fields[2] = TitleField
    /\ ~Raises(TitleField)
    /\ _extract_nested_field(call.response, TitleField) = NoneV
    /\ Get(result.item, "title") = StrV(T_na)
    /\ SatisfiesRule(StrV(T_na), TitleField.validation)

\* Some declared field of this name has a privacy block
DeclaresPrivacy(k) == \E fc \in CalledFields : fc.name = k /\ "privacy" \in fc.has

KeysOf(item) == {item[i][1] : i \in 1..Len(item)}

\* C30: apply_data_protection changes only fields that declare a privacy
\* policy: every key whose field has no privacy configuration, and every
\* metadata key, has the same value before and after, and no key is added
\* to the record.
C30_PrivacyFrame ==
    (call.fn = "parse_item" /\ result.done /\ result.r.outcome = "appended") =>
        LET before == result.item
            after == result.r.data[1]
            Kept(k) == Has(after, k) /\ Get(after, k) = Get(before, k)
        IN  /\ KeysOf(after) \subseteq KeysOf(before)
            /\ \A k \in KeysOf(before) : ~DeclaresPrivacy(k) => Kept(k)
            /\ \A i \in 1..Len(MetadataKeys) :
                  Has(before, MetadataKeys[i]) => Kept(MetadataKeys[i])

\* The step is a parse_item call that ended with outcome o
ParsedAs(o) == counts'[o] = counts[o] + 1

\* C29: the collection is append-only and bounded by the counter: after
\* every step len(scraped_data) <= pages_scraped, a step adds at most one
\* record at the end, a document rejected for page limit or depth adds no
\* record and leaves the counter, a document excluded by the item filter
\* adds no record and still consumes one unit of the page quota.
C29_AppendOnlyBounded ==
    [][ /\ Len(scraped_data') <= pages_scraped'
        /\ Len(scraped_data') \in {Len(scraped_data), Len(scraped_data) + 1}
        /\ SubSeq(scraped_data', 1, Len(scraped_data)) = scraped_data
        /\ pages_scraped' >= pages_scraped
        /\ (ParsedAs("page_limit") \/ ParsedAs("depth_limit")) =>
               scraped_data' = scraped_data /\ pages_scraped' = pages_scraped
        /\ ParsedAs("filtered") =>
               scraped_data' = scraped_data /\ pages_scraped' = pages_scraped + 1
        /\ ParsedAs("appended") =>
               /\ Len(scraped_data') = Len(scraped_data) + 1
               /\ pages_scraped' = pages_scraped + 1
      ]_vars

\* A document was filtered out after a record was kept: the counter is
\* ahead of the collection
C29_FilteredConsumedQuota ==
    /\ outcome = "filtered"
    /\ Len(scraped_data) >= 1
    /\ pages_scraped = Len(scraped_data) + 1
    /\ counts["filtered"] = 1

\* None, the bare text, or the list, by the number of entries
Shaped(values) ==
    IF Len(values) = 0 THEN NoneV
    ELSE IF Len(values) = 1 THEN StrV(values[1])
    ELSE ListV(values)

NestedDone == call.fn = "_extract_nested_field" /\ result.done

\* C24: for a field whose selector is the address sentinel, the document's
\* address goes through the field's transformation pipeline as a
\* single-element sequence, and the stored value is the transformed address.
C24_SentinelGoesThroughPipeline ==
    (NestedDone /\ call.fc.selector = S_response_url) =>
        result.value = Shaped(ApplyOps(<<call.response.url>>, call.fc.transformations))

\* C25: after the chain of a field with a non-sentinel selector the value is
\* null for zero entries, the bare string for one entry and the list in
\* order for more; an empty extraction skips every operation and yields null.
C25_ShapeAfterChain ==
    (NestedDone /\ call.fc.selector # S_response_url) =>
        LET extracted == call.response.css[call.fc.name].values
            left == result.left
        IN  /\ Len(left) = 0 => result.value = NoneV
            /\ Len(left) = 1 => result.value = StrV(left[1])
            /\ Len(left) > 1 => result.value = ListV(left)
            /\ extracted = <<>> => left = <<>> /\ result.value = NoneV
            /\ extracted # <<>> => left = ApplyOps(extracted, call.fc.transformations)

\* Three texts cut to two stay a list; the chain was applied
C25_ListOfTwo ==
    /\ NestedDone /\ call.fc.selector # S_response_url
    /\ call.response.css["title"].values = <<T_ok, T_x, T_SPAM>>
    /\ call.fc.transformations = <<Op("limit", 2)>>
    /\ result.value = ListV(<<T_ok, T_x>>)

PhoneDone == call.fn = "_normalize_phone" /\ result.done

\* a text of exactly n digits
IsDigits(s, n) == Len(s) = n /\ \A i \in 1..Len(s) : IsDigit(s[i])

\* C26: normalize_phone strips every character that is not a digit or a
\* plus sign, returns "+1" and the ten digits when the cleaned value is a
\* 10-digit number or an 11-digit number with leading 1, and returns every
\* other input unchanged.
C26_NormalizePhoneAsStated ==
    PhoneDone =>
        LET cleaned == Cleaned(call.phone)
        IN  IF IsDigits(cleaned, 10) THEN result.value = <<"+", "1">> \o cleaned
            ELSE IF IsDigits(cleaned, 11) /\ cleaned[1] = "1"
                 THEN result.value = <<"+">> \o cleaned
            ELSE result.value = call.phone

\* C26 (amended): a cleaned value that starts with a plus sign is returned
\* cleaned; otherwise a cleaned value of ten characters gets "+1" in front,
\* one of eleven characters starting with 1 gets "+" in front, and every
\* other input is returned unchanged.
C26_NormalizePhoneWithPlusBranch ==
    PhoneDone =>
        LET cleaned == Cleaned(call.phone)
            plus == cleaned # <<>> /\ cleaned[1] = "+"
            ten == ~plus /\ Len(cleaned) = 10
            eleven == ~plus /\ Len(cleaned) = 11 /\ cleaned[1] = "1"
        IN  /\ plus => result.value = cleaned
            /\ ten => result.value = <<"+", "1">> \o cleaned
            /\ eleven => result.value = <<"+">> \o cleaned
            /\ ~(plus \/ ten \/ eleven) => result.value = call.phone

\* "(555) 123-4567" becomes "+15551234567"
C26_ParenthesisedNumber ==
    PhoneDone /\ call.phone = P_paren /\ result.value = P_canonical

TransformDone == call.fn = "_apply_nested_transformations" /\ result.done

\* C27: for every entry v and every string s, the empty string included,
\* remove_prefix(s) returns v without its leading s when v starts with s
\* and v otherwise, remove_suffix(s) returns v without its trailing s when
\* v ends with s and v otherwise, and the removed part concatenated with
\* the result gives back v.
C27_AffixRemovalRoundTrip ==
    TransformDone =>
        LET v == call.values[1]
            tr == call.transformations[1]
            s == tr.arg
            out == result.values[1]
        IN  /\ Len(result.values) = 1
            /\ tr.op = "remove_prefix" =>
                  IF StartsWith(v, s)
                  THEN s \o out = v
                  ELSE out = v
            /\ tr.op = "remove_suffix" =>
                  IF EndsWith(v, s)
                  THEN out \o s = v
                  ELSE out = v

====
